---------------------------- MODULE Spec2Model ----------------------------
(***************************************************************************)
(* A model of archive.py: an Ansible module that archives a source         *)
(* directory into a destination directory with tar or zip and then keeps   *)
(* only the `number` most recent archives there.                           *)
(*                                                                         *)
(* File names are records [stamp, base]: `base` is the name typed by the   *)
(* user cut into tokens (a stem and its dotted suffixes, <<"a", ".tar",    *)
(* ".gz">> for a.tar.gz) and `stamp` is the date-time prefix main() puts   *)
(* in front of it (0: no prefix).  The prefix holds digits and dashes      *)
(* only, so `extension in name` (line 86) is decided by the tokens.        *)
(***************************************************************************)
EXTENDS Integers, Sequences, FiniteSets, TLC

(***************************************************************************)
(* Bounds of the model.                                                    *)
(***************************************************************************)
MaxTime == 3          \* modification times of the files already in dest
MaxNumber == 2        \* largest retention count tried
MaxLocked == 1        \* how many files of dest may refuse removal
MaxMainFiles == 1     \* files already in dest when main() starts
MaxConcFiles == 1     \* the same, when two invocations share dest

Procs == {1, 2}

None == <<>>          \* Python's None (also what get_bin_path gives for a missing tool)

VARIABLES
    py3,              \* TRUE: the interpreter has IOError = OSError (Python 3)
    tools,            \* names of the executables found on the host's PATH
    dir,              \* dest: file name -> st_mtime
    locked,           \* files of dest whose os.remove is denied
    clock,            \* the host's time, in seconds
    pc,               \* per invocation: where it is in the code
    msg,              \* per invocation: how it ended
    params,           \* per invocation: module.params
    archive_tstmp,    \* the archive name main hands to pick_handler
    hidx,             \* pick_handler: index of the handler being tried
    handler,          \* the handler object picked (None before)
    res_args,         \* main's result record
    cmds,             \* commands handed to module.run_command
    archives,         \* archive_removal: local `archives`
    filedata,         \* archive_removal: local `filedata`
    filedata_sorted,  \* archive_removal: local `filedata_sorted`
    x,                \* archive_removal: deletions done by the loop of line 93
    removed,          \* files the current archive_removal call has removed
    entry,            \* dest as it was when the current archive_removal call began
    listings,         \* how many times the invocation has listed dest
    calls             \* finished archive_removal calls, oldest first

vars == <<py3, tools, dir, locked, clock, pc, msg, params, archive_tstmp, hidx, handler,
          res_args, cmds, archives, filedata, filedata_sorted, x, removed,
          entry, listings, calls>>

Set(f, p, v) == [f EXCEPT ![p] = v]

(***************************************************************************)
(* File names and the directory.                                           *)
(***************************************************************************)
Name(stamp, base) == [stamp |-> stamp, base |-> base]

\* The names dest may hold before any invocation.
OldFiles ==
    { Name(0, <<"a", ".tar", ".gz">>), Name(0, <<"b", ".tar">>),
      Name(0, <<"c", ".tar", ".gz", ".bak">>), Name(0, <<"d", ".zip">>) }

\* The archive name the user asks for.
ArchiveNames == { <<"h", ".tar", ".gz">> }

MaxClock == MaxTime + 1

Dirs(n) ==
    UNION { [S -> 1..MaxTime] : S \in { T \in SUBSET OldFiles : Cardinality(T) <= n } }

Locks(d) == { L \in SUBSET DOMAIN d : Cardinality(L) <= MaxLocked }

\* the archive tool writes dest/name at time t (an existing name is overwritten)
Create(d, name, t) == [f \in DOMAIN d \cup {name} |-> IF f = name THEN t ELSE d[f]]

\* os.remove(dest/name)
Remove(d, name) == [f \in DOMAIN d \ {name} |-> d[f]]

(***************************************************************************)
(* The handler classes.                                                    *)
(***************************************************************************)
get_bin_path(name) == IF name \in tools THEN <<"/usr/bin", name>> ELSE None

TgzArchive(archive, number) ==
    [cls |-> "TgzArchive", archive |-> archive, number |-> number,
     cmd_path |-> get_bin_path("tar"), zipflag |-> "z", extension |-> <<".tar", ".gz">>]

TarArchive(archive, number) ==
    [cls |-> "TarArchive", archive |-> archive, number |-> number,
     cmd_path |-> get_bin_path("tar"), zipflag |-> "", extension |-> <<".tar">>]

TarBzip(archive, number) ==
    [cls |-> "TarBzip", archive |-> archive, number |-> number,
     cmd_path |-> get_bin_path("tar"), zipflag |-> "j", extension |-> <<".tar", ".bz2">>]

TarXz(archive, number) ==
    [cls |-> "TarXz", archive |-> archive, number |-> number,
     cmd_path |-> get_bin_path("tar"), zipflag |-> "J", extension |-> <<".tar", ".xz">>]

ZipArchive(archive, number) ==
    [cls |-> "ZipArchive", archive |-> archive, number |-> number,
     cmd_path |-> get_bin_path("zip"), extension |-> <<".zip">>]

NoObj == [cls |-> "None"]

\* line 199: the order in which pick_handler tries the classes
handlers == <<"ZipArchive", "TgzArchive", "TarBzip", "TarXz", "TarArchive">>

\* line 201: handler(src, dest, archive, number, module)
Construct(cls, archive, number) ==
    CASE cls = "ZipArchive" -> ZipArchive(archive, number)
      [] cls = "TgzArchive" -> TgzArchive(archive, number)
      [] cls = "TarBzip" -> TarBzip(archive, number)
      [] cls = "TarXz" -> TarXz(archive, number)
      [] cls = "TarArchive" -> TarArchive(archive, number)

\* a zip check that forgets to compare the tag's tool with the zip tool
ZipArchive_archive_check_any(obj, arch_type) == obj.cmd_path # None

\* ZipArchive.archive_check: no zip tool, no match; otherwise the tag is
\* looked up as a tool and must resolve to the zip tool itself.
ZipArchive_archive_check(obj, arch_type) ==
    IF obj.cmd_path = None THEN FALSE
    ELSE get_bin_path(arch_type) = obj.cmd_path

\* the tar family: the tag alone decides (a fall-through returns None: false)
TgzArchive_archive_check(obj, arch_type) == arch_type = "tgz"

TarArchive_archive_check(obj, arch_type) == arch_type = "tar"

TarBzip_archive_check(obj, arch_type) == arch_type = "bz2"

TarXz_archive_check(obj, arch_type) == arch_type = "xz"

archive_check(obj, arch_type) ==
    CASE obj.cls = "ZipArchive" -> ZipArchive_archive_check(obj, arch_type)
      [] obj.cls = "TgzArchive" -> TgzArchive_archive_check(obj, arch_type)
      [] obj.cls = "TarBzip" -> TarBzip_archive_check(obj, arch_type)
      [] obj.cls = "TarXz" -> TarXz_archive_check(obj, arch_type)
      [] obj.cls = "TarArchive" -> TarArchive_archive_check(obj, arch_type)

\* archive_dir's command line: the tool, its options, dest/archive, src
archive_dir_cmd(obj) ==
    IF obj.cls = "ZipArchive"
    THEN [tool |-> obj.cmd_path, opts |-> <<"-r">>, target |-> obj.archive]
    ELSE [tool |-> obj.cmd_path, opts |-> <<"-v", obj.zipflag, "cf">>, target |-> obj.archive]

\* what module.run_command can answer: a missing tool never exits with 0
RunOutcomes(obj) ==
    IF obj.cmd_path = None THEN {"rc1", "IOError"} ELSE {"rc0", "rc1", "IOError"}

\* `extension in archive`: the extension occurs somewhere in the name
Contains(ext, base) ==
    \E i \in 1..(Len(base) - Len(ext) + 1) : SubSeq(base, i, i + Len(ext) - 1) = ext

\* a listing that forgets the extension filter
Listing_all(obj, d) == DOMAIN d

\* lines 85-86 and 99-100: os.listdir(dest) filtered by the extension.  The
\* order of os.listdir is unspecified, so the listing is kept as a set.
Listing(obj, d) == { f \in DOMAIN d : Contains(obj.extension, f.base) }

RECURSIVE Perms(_)
Perms(S) ==
    IF S = {} THEN { <<>> }
    ELSE UNION { { <<e>> \o s : s \in Perms(S \ {e}) } : e \in S }

\* a sort that puts the newest first
Sorted_newest_first(fd) ==
    { s \in Perms(DOMAIN fd) :
        \A i, j \in 1..Len(s) : i < j => fd[s[i]] >= fd[s[j]] }

\* line 90: sorted(filedata, key=filedata.get); the order of equal keys is
\* that of the dict, which the listing decides: any order
Sorted(fd) ==
    { s \in Perms(DOMAIN fd) :
        \A i, j \in 1..Len(s) : i < j => fd[s[i]] <= fd[s[j]] }

(***************************************************************************)
(* How an invocation ends.                                                 *)
(***************************************************************************)
\* module.fail_json(msg=m): the invocation ends as a failure
fail_json(p, m) == pc' = Set(pc, p, "fail_json") /\ msg' = Set(msg, p, m)

\* module.exit_json(**res_args): the invocation ends as a success
exit_json(p) == pc' = Set(pc, p, "exit_json") /\ msg' = Set(msg, p, "ok")

\* an exception no handler catches: the interpreter ends with a traceback
uncaught(p, e) == pc' = Set(pc, p, "uncaught") /\ msg' = Set(msg, p, e)

\* `except IOError` catches an OSError only where the two are one class
Caught_OSError == py3

NoRes ==
    [handler |-> "None", archive |-> <<>>, changed |-> FALSE,
     archive_results |-> <<>>, archive_removal_results |-> <<>>]

choices == {"tgz", "zip", "tar", "bz2", "xz"}

ArchTypes == choices \cup {"rar"}

Numbers == 0..MaxNumber      \* 0 stands for "not given" too: both are false

PathChecks == {"ok", "src missing", "src unreadable", "dest missing", "dest unwritable"}

(***************************************************************************)
(* main                                                                    *)
(***************************************************************************)
\* lines 209-224: AnsibleModule(argument_spec=...) refuses a tag outside choices
main_args(p) ==
    /\ pc[p] = "start"
    /\ IF params[p].arch_type \notin choices
       THEN fail_json(p, "value of arch_type must be one of choices")
       ELSE pc' = Set(pc, p, "validate") /\ msg' = msg
    /\ UNCHANGED <<py3, tools, dir, locked, clock, params, archive_tstmp, hidx, handler,
                   res_args, cmds, archives, filedata, filedata_sorted, x, removed,
                   entry, listings, calls>>

\* lines 226-236: the four checks of src and dest
main_validate(p) ==
    /\ pc[p] = "validate"
    /\ \E v \in PathChecks :
         IF v = "ok"
         THEN pc' = Set(pc, p, "name") /\ msg' = msg
         ELSE fail_json(p, v)
    /\ UNCHANGED <<py3, tools, dir, locked, clock, params, archive_tstmp, hidx, handler,
                   res_args, cmds, archives, filedata, filedata_sorted, x, removed,
                   entry, listings, calls>>

\* lines 238-245: without a number, pick_handler is called with five
\* arguments where it takes six, which raises TypeError; with one, the name
\* gets the date-time prefix and pick_handler starts.
main_pick(p) ==
    /\ pc[p] = "name"
    /\ IF params[p].number = 0
       THEN /\ uncaught(p, "TypeError")
            /\ UNCHANGED <<archive_tstmp, hidx>>
       ELSE /\ archive_tstmp' = Set(archive_tstmp, p, Name(clock, params[p].archive))
            /\ hidx' = Set(hidx, p, 1)
            /\ pc' = Set(pc, p, "pick")
            /\ msg' = msg
    /\ UNCHANGED <<py3, tools, dir, locked, clock, params, handler,
                   res_args, cmds, archives, filedata, filedata_sorted, x, removed,
                   entry, listings, calls>>

\* lines 198-205, one turn of the loop (and lines 244-245 when it returns)
pick_handler(p) ==
    /\ pc[p] = "pick"
    /\ IF hidx[p] > Len(handlers)
       THEN /\ fail_json(p, "Failed to find handler to archive")
            /\ UNCHANGED <<hidx, handler, res_args>>
       ELSE LET obj == Construct(handlers[hidx[p]], archive_tstmp[p], params[p].number)
            IN  IF archive_check(obj, params[p].arch_type)
                THEN /\ handler' = Set(handler, p, obj)
                     /\ res_args' = Set(res_args, p,
                            [NoRes EXCEPT !.handler = obj.cls, !.archive = params[p].archive])
                     /\ pc' = Set(pc, p, "archive")
                     /\ UNCHANGED <<hidx, msg>>
                ELSE /\ hidx' = Set(hidx, p, hidx[p] + 1)
                     /\ UNCHANGED <<pc, msg, handler, res_args>>
    /\ UNCHANGED <<py3, tools, dir, locked, clock, params, archive_tstmp,
                   cmds, archives, filedata, filedata_sorted, x, removed,
                   entry, listings, calls>>

\* a main that does not look at the exit code
archive_failed_never(res) == res.rc < 0

\* line 250: the exit code that makes main give up
archive_failed(res) == res.rc # 0

\* lines 247-255: handler.archive_dir() and what main makes of its answer
main_archive(p) ==
    /\ pc[p] = "archive"
    /\ cmds' = Set(cmds, p, Append(cmds[p], archive_dir_cmd(handler[p])))
    /\ \E o \in RunOutcomes(handler[p]) :
         IF o = "IOError"
         THEN /\ fail_json(p, "failed to archive")
              /\ UNCHANGED <<clock, dir, res_args>>
         ELSE LET res == [rc |-> IF o = "rc0" THEN 0 ELSE 1]
              IN  /\ \E t \in clock..MaxClock :
                       /\ clock' = t
                       /\ dir' = IF o = "rc0" THEN Create(dir, handler[p].archive, t)
                                 ELSE dir
                  /\ IF archive_failed(res)
                     THEN /\ res_args' = Set(res_args, p,
                                [res_args[p] EXCEPT !.archive_results = <<res>>])
                          /\ fail_json(p, "failed to archive")
                     ELSE /\ res_args' = Set(res_args, p,
                                [res_args[p] EXCEPT !.archive_results = <<res>>,
                                                    !.changed = TRUE])
                          /\ pc' = Set(pc, p, "purge")
                          /\ msg' = msg
    /\ UNCHANGED <<py3, tools, locked, params, archive_tstmp, hidx, handler,
                   archives, filedata, filedata_sorted, x, removed, entry, listings, calls>>

\* lines 258-260: retention is called only with a number
main_purge(p) ==
    /\ pc[p] = "purge"
    /\ IF params[p].number # 0
       THEN pc' = Set(pc, p, "rm_listdir") /\ msg' = msg
       ELSE exit_json(p)
    /\ UNCHANGED <<py3, tools, dir, locked, clock, params, archive_tstmp, hidx, handler,
                   res_args, cmds, archives, filedata, filedata_sorted, x, removed,
                   entry, listings, calls>>

\* lines 260, 263-266: archive_removal returned
main_purge_done(p) ==
    /\ pc[p] = "rm_return"
    /\ res_args' = Set(res_args, p,
          [res_args[p] EXCEPT !.archive_removal_results = <<calls[p][Len(calls[p])]>>,
                              !.changed = TRUE])
    /\ exit_json(p)
    /\ UNCHANGED <<py3, tools, dir, locked, clock, params, archive_tstmp, hidx, handler,
                   cmds, archives, filedata, filedata_sorted, x, removed, entry, listings, calls>>

\* lines 261-262: archive_removal raised OSError
main_purge_except(p) ==
    /\ pc[p] = "rm_raise"
    /\ IF Caught_OSError
       THEN fail_json(p, "failed on archiving purge")
       ELSE uncaught(p, "OSError")
    /\ UNCHANGED <<py3, tools, dir, locked, clock, params, archive_tstmp, hidx, handler,
                   res_args, cmds, archives, filedata, filedata_sorted, x, removed,
                   entry, listings, calls>>

(***************************************************************************)
(* archive_removal (TgzArchive's, inherited by the tar family; ZipArchive  *)
(* repeats it word for word at lines 177-194), one system call per step.   *)
(***************************************************************************)
Returned(p, e, out) ==
    [raised |-> FALSE, err |-> e, out |-> out, removed |-> removed[p], entry |-> entry[p]]

Raised(p) ==
    [raised |-> TRUE, err |-> <<>>, out |-> {}, removed |-> removed[p], entry |-> entry[p]]

NoData == [f \in {} |-> 0]

\* lines 85-87: the first listing
archive_removal_listdir(p) ==
    /\ pc[p] = "rm_listdir"
    /\ archives' = Set(archives, p, Listing(handler[p], dir))
    /\ filedata' = Set(filedata, p, NoData)
    /\ filedata_sorted' = Set(filedata_sorted, p, <<>>)
    /\ x' = Set(x, p, 0)
    /\ removed' = Set(removed, p, {})
    /\ entry' = Set(entry, p, dir)
    /\ listings' = Set(listings, p, listings[p] + 1)
    /\ pc' = Set(pc, p, "rm_stat")
    /\ UNCHANGED <<py3, tools, dir, locked, clock, msg, params, archive_tstmp, hidx,
                   handler, res_args, cmds, calls>>

\* lines 88-89: os.stat of one listed file, outside any try; a file that is
\* gone by now raises OSError out of archive_removal
archive_removal_stat(p) ==
    /\ pc[p] = "rm_stat"
    /\ \E f \in archives[p] \ DOMAIN filedata[p] :
         IF f \in DOMAIN dir
         THEN /\ filedata' = Set(filedata, p, Create(filedata[p], f, dir[f]))
              /\ UNCHANGED <<pc, calls>>
         ELSE /\ calls' = Set(calls, p, Append(calls[p], Raised(p)))
              /\ pc' = Set(pc, p, "rm_raise")
              /\ UNCHANGED filedata
    /\ UNCHANGED <<py3, tools, dir, locked, clock, msg, params, archive_tstmp, hidx,
                   handler, res_args, cmds, archives, filedata_sorted, x, removed, entry,
                   listings>>

\* line 90: all listed files have their time; sort them, oldest first
archive_removal_sort(p) ==
    /\ pc[p] = "rm_stat"
    /\ DOMAIN filedata[p] = archives[p]
    /\ \E s \in Sorted(filedata[p]) : filedata_sorted' = Set(filedata_sorted, p, s)
    /\ pc' = Set(pc, p, "rm_loop")
    /\ UNCHANGED <<py3, tools, dir, locked, clock, msg, params, archive_tstmp, hidx,
                   handler, res_args, cmds, archives, filedata, x, removed, entry, listings,
                   calls>>

\* line 95: os.remove succeeds on a file that is there and may be removed
Removable(f) == f \in DOMAIN dir /\ f \notin locked

\* line 92: how many files the loop is to remove
Excess(p) == Len(filedata_sorted[p]) - handler[p].number

\* lines 91-98: one turn of the loop; a failed os.remove ends the call, with
\* the first listing as `out` where the exception is caught at line 96
archive_removal_remove(p) ==
    /\ pc[p] = "rm_loop"
    /\ IF Len(filedata_sorted[p]) > handler[p].number /\ x[p] < Excess(p)
       THEN LET f == filedata_sorted[p][x[p] + 1]
            IN  IF Removable(f)
                THEN /\ dir' = Remove(dir, f)
                     /\ removed' = Set(removed, p, removed[p] \cup {f})
                     /\ x' = Set(x, p, x[p] + 1)
                     /\ UNCHANGED <<pc, calls>>
                ELSE /\ IF Caught_OSError
                        THEN /\ calls' = Set(calls, p,
                                    Append(calls[p], Returned(p, <<f>>, archives[p])))
                             /\ pc' = Set(pc, p, "rm_return")
                        ELSE /\ calls' = Set(calls, p, Append(calls[p], Raised(p)))
                             /\ pc' = Set(pc, p, "rm_raise")
                     /\ UNCHANGED <<dir, removed, x>>
       ELSE /\ pc' = Set(pc, p, "rm_relist")
            /\ UNCHANGED <<dir, removed, x, calls>>
    /\ UNCHANGED <<py3, tools, locked, clock, msg, params, archive_tstmp, hidx,
                   handler, res_args, cmds, archives, filedata, filedata_sorted, entry,
                   listings>>

\* lines 99-101: the second listing is what a call without error returns
archive_removal_relist(p) ==
    /\ pc[p] = "rm_relist"
    /\ archives' = Set(archives, p, Listing(handler[p], dir))
    /\ calls' = Set(calls, p, Append(calls[p], Returned(p, <<>>, Listing(handler[p], dir))))
    /\ listings' = Set(listings, p, listings[p] + 1)
    /\ pc' = Set(pc, p, "rm_return")
    /\ UNCHANGED <<py3, tools, dir, locked, clock, msg, params, archive_tstmp, hidx,
                   handler, res_args, cmds, filedata, filedata_sorted, x, removed, entry>>

\* a caller of the method calls it once more on the same object
call_again(p) ==
    /\ pc[p] \in {"rm_return", "rm_raise"}
    /\ Len(calls[p]) < 2
    /\ pc' = Set(pc, p, "rm_listdir")
    /\ UNCHANGED <<py3, tools, dir, locked, clock, msg, params, archive_tstmp, hidx,
                   handler, res_args, cmds, archives, filedata, filedata_sorted, x,
                   removed, entry, listings, calls>>

(***************************************************************************)
(* Specifications.                                                         *)
(***************************************************************************)
Params == [arch_type : ArchTypes, number : Numbers, archive : ArchiveNames]

NoParams == [arch_type |-> "tgz", number |-> 0, archive |-> <<>>]

Locals ==
    /\ msg = [p \in Procs |-> ""]
    /\ archive_tstmp = [p \in Procs |-> Name(0, <<>>)]
    /\ hidx = [p \in Procs |-> 0]
    /\ res_args = [p \in Procs |-> NoRes]
    /\ cmds = [p \in Procs |-> <<>>]
    /\ archives = [p \in Procs |-> {}]
    /\ filedata = [p \in Procs |-> NoData]
    /\ filedata_sorted = [p \in Procs |-> <<>>]
    /\ x = [p \in Procs |-> 0]
    /\ removed = [p \in Procs |-> {}]
    /\ entry = [p \in Procs |-> NoData]
    /\ listings = [p \in Procs |-> 0]
    /\ calls = [p \in Procs |-> <<>>]

\* one invocation of the module
Init ==
    /\ py3 \in BOOLEAN
    /\ tools \in SUBSET {"tar", "zip", "xz"}
    /\ dir \in Dirs(MaxMainFiles)
    /\ locked \in Locks(dir)
    /\ clock = MaxTime
    /\ pc = [p \in Procs |-> IF p = 1 THEN "start" ELSE "absent"]
    /\ \E a \in Params : params = [p \in Procs |-> IF p = 1 THEN a ELSE NoParams]
    /\ handler = [p \in Procs |-> NoObj]
    /\ Locals

Step(p) ==
    \/ main_args(p)
    \/ main_validate(p)
    \/ main_pick(p)
    \/ pick_handler(p)
    \/ main_archive(p)
    \/ main_purge(p)
    \/ main_purge_done(p)
    \/ main_purge_except(p)
    \/ archive_removal_listdir(p)
    \/ archive_removal_stat(p)
    \/ archive_removal_sort(p)
    \/ archive_removal_remove(p)
    \/ archive_removal_relist(p)

Next == \E p \in Procs : Step(p)

Spec == Init /\ [][Next]_vars

\* two invocations with a retention count against the same dest
InitConc ==
    /\ py3 \in BOOLEAN
    /\ tools = {"tar", "zip"}
    /\ dir \in Dirs(MaxConcFiles)
    /\ locked = {}
    /\ clock = MaxTime
    /\ pc = [p \in Procs |-> "start"]
    /\ \E t \in {"tgz", "tar"} : \E n \in 1..MaxNumber :
         params = [p \in Procs |->
                     [arch_type |-> t, number |-> n, archive |-> <<"h", ".tar", ".gz">>]]
    /\ handler = [p \in Procs |-> NoObj]
    /\ Locals

SpecConc == InitConc /\ [][Next]_vars

\* archive_removal called on a handler object, twice in a row
InitRot ==
    /\ py3 \in BOOLEAN
    /\ tools = {"tar", "zip"}
    /\ dir \in Dirs(Cardinality(OldFiles))
    /\ locked \in Locks(dir)
    /\ clock = MaxTime
    /\ pc = [p \in Procs |-> IF p = 1 THEN "rm_listdir" ELSE "absent"]
    /\ params = [p \in Procs |-> NoParams]
    /\ \E c \in 1..Len(handlers) : \E n \in 1..MaxNumber :
         handler = [p \in Procs |->
                      IF p = 1 THEN Construct(handlers[c], Name(0, <<>>), n) ELSE NoObj]
    /\ Locals

NextRot ==
    \E p \in Procs :
        \/ archive_removal_listdir(p)
        \/ archive_removal_stat(p)
        \/ archive_removal_sort(p)
        \/ archive_removal_remove(p)
        \/ archive_removal_relist(p)
        \/ call_again(p)

SpecRot == InitRot /\ [][NextRot]_vars

(***************************************************************************)
(* The claims.                                                             *)
(***************************************************************************)
Last(s) == s[Len(s)]

Ended(p) == pc[p] \in {"exit_json", "fail_json", "uncaught"}

ArchivedOk(p) == res_args[p].archive_results = << [rc |-> 0] >>

\* the files of directory d whose name carries extension ext
Carrying(ext, d) == { f \in DOMAIN d : Contains(ext, f.base) }

DistinctTimes(S, d) == \A f, g \in S : f # g => d[f] # d[g]

\* the n files of S with the latest times in d
Newest(n, S, d) == { f \in S : Cardinality({ g \in S : d[g] > d[f] }) < n }

ExcessFiles(p) == { filedata_sorted[p][i] : i \in 1..Excess(p) }

\* C5: in a retention pass with several excess archives a deletion failure
\* on one of them does not abort the loop: every other excess archive is
\* still removed, and the pass returns a result.
C5_FailureDoesNotAbort ==
    \A p \in Procs :
        (pc[p] \in {"rm_return", "rm_raise"} /\ Excess(p) >= 2)
        => /\ ~Last(calls[p]).raised
           /\ \A f \in ExcessFiles(p) : f \notin locked => f \notin DOMAIN dir

\* C7: archive_removal called twice in a row with the same number and no file
\* created in between removes nothing the second time and returns the same
\* list of remaining archives as the first call (stated for a dest whose
\* archives have pairwise distinct times, where the order of removal is
\* determined).
C7_Idempotent ==
    \A p \in Procs :
        (/\ Len(calls[p]) = 2
         /\ ~calls[p][1].raised /\ ~calls[p][2].raised
         /\ DistinctTimes(Carrying(handler[p].extension, calls[p][1].entry),
                          calls[p][1].entry))
        => /\ calls[p][2].removed = {}
           /\ calls[p][2].out = calls[p][1].out

\* a file name ends with extension ext: an archive of that format
EndsWith(ext, base) ==
    Len(base) >= Len(ext) /\ SubSeq(base, Len(base) - Len(ext) + 1, Len(base)) = ext

ExtensionOf(cls) == Construct(cls, Name(0, <<>>), 0).extension

Classes == { handlers[i] : i \in 1..Len(handlers) }

\* C9 as claimed: a retention pass with the handler of format F removes no
\* archive of another format G (rotating tar never removes a .tar.gz file).
C9_OtherFormatsUntouched ==
    \A p \in Procs :
        handler[p].cls # "None"
        => \A g \in Classes \ {handler[p].cls} :
             \A f \in removed[p] : ~EndsWith(ExtensionOf(g), f.base)

\* C9 as amended: a retention pass counts and removes only files whose name
\* carries the handler's extension somewhere; every file of dest whose name
\* does not carry it stays as it was.
C9_OnlyCarriersTouched ==
    \A p \in Procs :
        handler[p].cls # "None"
        => /\ \A f \in removed[p] \cup archives[p] \cup DOMAIN filedata[p] :
                Contains(handler[p].extension, f.base)
           /\ \A f \in DOMAIN entry[p] :
                ~Contains(handler[p].extension, f.base)
                => f \in DOMAIN dir /\ dir[f] = entry[p][f]

\* a tar pass has removed a .tar.gz file while a file without ".tar" stayed
C9_Witness ==
    \E p \in Procs :
        /\ pc[p] = "rm_return"
        /\ handler[p].cls = "TarArchive"
        /\ \E f \in removed[p] : EndsWith(<<".tar", ".gz">>, f.base)
        /\ \E f \in DOMAIN entry[p] : ~Contains(<<".tar">>, f.base) /\ f \in DOMAIN dir

\* the external tool a format needs
RequiredTool(t) == IF t = "zip" THEN "zip" ELSE "tar"

PathFailures == PathChecks \ {"ok"}

\* C2: with no retention count, validation passed, a supported format and
\* its tool on the host, the invocation picks a handler, runs exactly one
\* archive command on dest/<the archive name as given> and, when that
\* command exits with 0, ends as a success reporting changed = true.
C2_PlainNameArchived ==
    \A p \in Procs :
        (/\ Ended(p)
         /\ params[p].number = 0
         /\ params[p].arch_type \in choices
         /\ RequiredTool(params[p].arch_type) \in tools
         /\ msg[p] \notin PathFailures)
        => /\ handler[p].cls # "None"
           /\ Len(cmds[p]) = 1
           /\ cmds[p][1].target = Name(0, params[p].archive)
           /\ (ArchivedOk(p) => pc[p] = "exit_json" /\ res_args[p].changed)

\* C3: when the tag is unsupported, or its required tool (tar for tgz, tar,
\* bz2 and xz, zip for zip) is not on the host, handler selection ends in the
\* "no handler" failure and the invocation never runs an archive command.
C3_MissingToolNoHandler ==
    \A p \in Procs :
        (/\ hidx[p] >= 1
         /\ pc[p] # "pick"
         /\ \/ params[p].arch_type \notin choices
            \/ RequiredTool(params[p].arch_type) \notin tools)
        => /\ pc[p] = "fail_json"
           /\ msg[p] = "Failed to find handler to archive"
           /\ cmds[p] = <<>>

\* the class, the place in the probing order and the extension each tag stands for
ExpectedClass(t) ==
    CASE t = "zip" -> "ZipArchive" [] t = "tgz" -> "TgzArchive" [] t = "bz2" -> "TarBzip"
      [] t = "xz" -> "TarXz" [] t = "tar" -> "TarArchive"

ExpectedPlace(t) ==
    CASE t = "zip" -> 1 [] t = "tgz" -> 2 [] t = "bz2" -> 3 [] t = "xz" -> 4 [] t = "tar" -> 5

ExpectedExtension(t) ==
    CASE t = "zip" -> <<".zip">> [] t = "tgz" -> <<".tar", ".gz">>
      [] t = "bz2" -> <<".tar", ".bz2">> [] t = "xz" -> <<".tar", ".xz">>
      [] t = "tar" -> <<".tar">>

\* C4: with tar and zip on the host and a tag among tgz, tar, bz2, xz, zip,
\* pick_handler tries the handlers in the order zip, tgz, bz2, xz, tar, stops
\* at the first whose archive_check is true, and that handler is the one of
\* the tag, with the tag's extension.
C4_FirstMatchInOrder ==
    \A p \in Procs :
        (/\ hidx[p] >= 1
         /\ {"tar", "zip"} \subseteq tools
         /\ params[p].arch_type \in choices)
        => LET t == params[p].arch_type
           IN  /\ hidx[p] <= ExpectedPlace(t)
               /\ pc[p] # "pick"
                  => /\ hidx[p] = ExpectedPlace(t)
                     /\ handler[p].cls = ExpectedClass(t)
                     /\ handler[p].extension = ExpectedExtension(t)
                     /\ msg[p] # "Failed to find handler to archive"

\* the tar handler was picked last, on a host where the xz tag resolves to a tool
C4_Witness ==
    \E p \in Procs :
        /\ pc[p] = "archive"
        /\ params[p].arch_type = "tar"
        /\ tools = {"tar", "zip", "xz"}
        /\ hidx[p] = 5
        /\ handler[p].cls = "TarArchive"

\* C6: once the archive command has exited with 0, no failure inside the
\* retention pass makes the invocation fail: it always ends as a success.
C6_RetentionNeverFatal ==
    \A p \in Procs : (Ended(p) /\ ArchivedOk(p)) => pc[p] = "exit_json"

InRetention(p) == pc[p] \in {"rm_listdir", "rm_stat", "rm_loop", "rm_relist", "rm_return", "rm_raise"}

Touched(p) == listings[p] > 0 \/ removed[p] # {} \/ calls[p] # <<>> \/ InRetention(p)

\* C8: selection comes before archiving and archiving before retention;
\* retention runs only with a retention count and after an archive command
\* that exited with 0; an archive step that exits non-zero or raises ends the
\* invocation as a failure with nothing in dest listed or removed by it.
C8_StepOrder ==
    \A p \in Procs :
        /\ cmds[p] # <<>> => handler[p].cls # "None" /\ Len(cmds[p]) = 1
        /\ Touched(p) => /\ params[p].number # 0
                         /\ cmds[p] # <<>>
                         /\ ArchivedOk(p)
        /\ (cmds[p] # <<>> /\ ~ArchivedOk(p))
           => /\ pc[p] = "fail_json"
              /\ msg[p] = "failed to archive"
              /\ ~Touched(p)

\* an archive command exited non-zero with a retention count given and an
\* archive in dest for the retention pass to count
C8_Witness ==
    \E p \in Procs :
        /\ pc[p] = "fail_json"
        /\ res_args[p].archive_results = << [rc |-> 1] >>
        /\ params[p].number = 1
        /\ Carrying(handler[p].extension, dir) # {}
        /\ listings[p] = 0

\* C10: when two invocations have both archived with exit code 0 and run
\* retention on the same dest, a file one of them listed and the other
\* removed is tolerated: neither ends as a failure or with an uncaught error.
C10_RaceTolerated ==
    (\A q \in Procs : ArchivedOk(q))
    => \A p \in Procs : pc[p] \notin {"fail_json", "uncaught"}

=============================================================================
